---- MODULE Spec2Model ----
(***************************************************************************)
(* A model of simplefft3D.py: the acquisition grouper (conditionalGroups), *)
(* the processing loop (process) and the per-group reconstruction          *)
(* (process_group): reshape check, dynamic-range normalisation, spatial    *)
(* cropping and image/header assembly.                                     *)
(*                                                                         *)
(* Four state machines share this module:                                  *)
(*   Spec / FairSpec  the streaming session: conditionalGroups + process   *)
(*   AsmSpec          process_group applied to one bounded group           *)
(*   CropSpec         the three cropping steps of process_group            *)
(*   NormSpec         the normalisation step of process_group              *)
(***************************************************************************)
EXTENDS Integers, Sequences, FiniteSets, TLC

\* ------------------------------------------------------------------ bounds
\* Records pulled from the connection in one session.
MaxLen == 3
\* Largest encoded / reconstructed z matrix size; partition indices are 0..MaxZ-1.
MaxZ == 2
\* Records in the group handed to process_group in AsmSpec.
MaxGroup == 3
\* Largest partition index (kspace_encode_step_2) in AsmSpec.
MaxPart == 2
\* Largest axis length of the volume in CropSpec.
MaxAxis == 3
\* Largest reconSpace matrix size in CropSpec.
MaxTarget == 5
\* Voxels in the magnitude volume in NormSpec.
MaxVox == 3
\* Largest magnitude in NormSpec.
MaxMag == 3

\* --------------------------------------------------------------- constants
DefaultBitsStored == 12
Int16Min == -32768
Int16Max == 32767

VARIABLES
    \* the streaming session
    pc,         \* where process/conditionalGroups stand
    group,      \* conditionalGroups' buffer
    received,   \* the records pulled from the connection so far, in order
    emitted,    \* the groups conditionalGroups has yielded, in order
    sendCalls,  \* the argument of every connection.send_image call, in order
    sent,       \* the images the sink accepted, in order
    closes,     \* how often connection.send_close has been called
    error,      \* the exception that left process, "none" if none
    hdr,        \* mrdHeader.encoding[0]: the matrix sizes
    \* process_group on one group
    asmPc, asmGroup, asmHdr, asmResult,
    \* the cropping steps
    cropPc, cropIn, cropData, cropTarget,
    \* the normalisation step
    normPc, normData, normBits, normCast, normOut

sessionVars == <<pc, group, received, emitted, sendCalls, sent, closes, error, hdr>>
asmVars == <<asmPc, asmGroup, asmHdr, asmResult>>
cropVars == <<cropPc, cropIn, cropData, cropTarget>>
normVars == <<normPc, normData, normBits, normCast, normOut>>
vars == <<sessionVars, asmVars, cropVars, normVars>>

\* ------------------------------------------------------------------ helpers
Min2(a, b) == IF a < b THEN a ELSE b
Max2(a, b) == IF a > b THEN a ELSE b

RECURSIVE SeqMax(_)
SeqMax(s) == IF Len(s) = 1 THEN s[1] ELSE Max2(s[1], SeqMax(Tail(s)))

RECURSIVE Pow2(_)
Pow2(n) == IF n = 0 THEN 1 ELSE 2 * Pow2(n - 1)

\* All sequences over S of length lo..hi.
SeqsOf(S, lo, hi) == UNION {[1..k -> S] : k \in lo..hi}

\* int(x / 2) of Python: true division, then truncation towards zero.
IntHalf(x) == IF x >= 0 THEN x \div 2 ELSE 0 - ((0 - x) \div 2)

\* seq[start:stop] of Python/NumPy: a negative bound counts from the end, and
\* both bounds are clamped to 0..len.
PySlice(s, start, stop) ==
    LET n == Len(s)
        lo == IF start < 0 THEN Max2(start + n, 0) ELSE Min2(start, n)
        hi == IF stop < 0 THEN Max2(stop + n, 0) ELSE Min2(stop, n)
    IN  SubSeq(s, lo + 1, hi)

\* ------------------------------------------------------------- the cropper
\* One "Remove ... oversampling" step on one axis; the axis is the sequence
\* of the input indices it still holds.
\* (Variant: the slice written data[offset:size], its stop not offset + size.)
CropAxis_StopIsTarget(axis, target) ==
    IF target # 0
    THEN LET offset == IntHalf(Len(axis) - target)
         IN  PySlice(axis, offset, target)
    ELSE axis
\* The step as written: tested on size != 0 only.
CropAxis(axis, target) ==
    IF target # 0
    THEN LET offset == IntHalf(Len(axis) - target)
         IN  PySlice(axis, offset, offset + target)
    ELSE axis

\* The indices 0..n-1 of an axis of length n.
Axis(n) == [i \in 1..n |-> i - 1]

\* ----------------------------------------------------------- process_group
\* acquisition.getHead(): the header names its record.
getHead(acq) == [n |-> acq.n, part |-> acq.part]
\* The None placeholder of rawHead.
NoneHead == [n |-> 0, part |-> 0 - 1]

\* rawHead: [None] * (max(partition) + 1), then filled in group order, so a
\* later record of a partition overwrites an earlier one.
rawHeadTable(grp) ==
    LET parts == {grp[i].part : i \in DOMAIN grp}
        top == CHOOSE p \in parts : \A q \in parts : q <= p
        Last(p) == CHOOSE i \in DOMAIN grp :
                       /\ grp[i].part = p
                       /\ \A j \in DOMAIN grp : grp[j].part = p => j <= i
    IN  [k \in 1..(top + 1) |->
            IF (k - 1) \in parts THEN getHead(grp[Last(k - 1)]) ELSE NoneHead]

\* process_group past its length test: stack, reshape, transform, combine,
\* normalise, crop, assemble. noneOk: whether
\* mrdhelper.update_img_header_from_raw (defined outside this file) accepts a
\* None raw header or raises on it. np.stack raises on no array and reshape
\* on a readout count other than yEnc * zEnc; the Fourier transform, the coil
\* combination and the normalisation keep the shape of the volume and raise
\* nothing; the volume's last axis is zEnc long before the crop. An image is
\*   slice: imagesOut[p].slice,  head: the raw header given to setHead,
\*   plane: the index, along z of the uncropped volume, of its pixel data.
reconstruct(grp, mrdHeader, noneOk) ==
    IF Len(grp) # mrdHeader.yEnc * mrdHeader.zEnc
    THEN [err |-> "ValueError", images |-> <<>>]
    ELSE LET zAxis == CropAxis(Axis(mrdHeader.zEnc), mrdHeader.zRecon)
             rawHead == rawHeadTable(grp)
             outside == {p \in 1..Len(zAxis) : p > Len(rawHead)}
             missing == {p \in 1..Len(zAxis) :
                            p <= Len(rawHead) /\ rawHead[p] = NoneHead /\ ~noneOk}
             bad == outside \union missing
             first == CHOOSE p \in bad : \A q \in bad : p <= q
         IN  IF bad # {}
             THEN [err |-> IF first \in outside THEN "IndexError" ELSE "AttributeError",
                   images |-> <<>>]
             ELSE [err |-> "none",
                   images |-> [p \in 1..Len(zAxis) |->
                                 [slice |-> p - 1, head |-> rawHead[p], plane |-> zAxis[p]]]]

\* (Variant: no length test, so np.stack raises on the empty group.)
process_group_NoEmptyCheck(grp, mrdHeader, noneOk) == reconstruct(grp, mrdHeader, noneOk)
\* process_group(group, config, mrdHeader)
process_group(grp, mrdHeader, noneOk) ==
    IF Len(grp) = 0 THEN [err |-> "none", images |-> <<>>]
    ELSE reconstruct(grp, mrdHeader, noneOk)

\* ------------------------------------------------------- conditionalGroups
\* lambda acq: not acq.is_flag_set(ismrmrd.ACQ_IS_PHASECORR_DATA)
predicateAccept(acq) == ~acq.phasecorr
\* lambda acq: acq.is_flag_set(ismrmrd.ACQ_LAST_IN_SLICE)
predicateFinish(acq) == acq.last

\* (Variant: the finish test nested under the accept test.)
YieldsAfter_Nested(item) == predicateAccept(item) /\ predicateFinish(item)
\* The finish test of conditionalGroups, on every item whether accepted or not.
YieldsAfter(item) == predicateFinish(item)

Geometries == [yEnc : 1..2, zEnc : 1..MaxZ, zRecon : 0..MaxZ]

asmIdle == /\ asmPc = "idle" /\ asmGroup = <<>> /\ asmResult = <<>>
           /\ asmHdr = [yEnc |-> 1, zEnc |-> 1, zRecon |-> 0]
cropIdle == /\ cropPc = "idle" /\ cropIn = <<>> /\ cropData = <<>> /\ cropTarget = <<>>
normIdle == /\ normPc = "idle" /\ normData = <<>> /\ normBits = <<>>
            /\ normCast = "none" /\ normOut = <<>>
sessionIdle == /\ pc = "idle" /\ group = <<>> /\ received = <<>> /\ emitted = <<>>
               /\ sendCalls = <<>> /\ sent = <<>> /\ closes = 0 /\ error = "none"
               /\ hdr = [yEnc |-> 1, zEnc |-> 1, zRecon |-> 0]

\* process() has called conditionalGroups(connection, ...): empty buffer.
Init ==
    /\ pc = "iterating"
    /\ group = <<>>
    /\ received = <<>>
    /\ emitted = <<>>
    /\ sendCalls = <<>>
    /\ sent = <<>>
    /\ closes = 0
    /\ error = "none"
    /\ hdr \in Geometries
    /\ asmIdle /\ cropIdle /\ normIdle

\* for item in iterable: the connection delivers a record.
Pull ==
    /\ pc = "iterating"
    /\ Len(received) < MaxLen
    /\ \E ph \in BOOLEAN, la \in BOOLEAN, pa \in 0..(MaxZ - 1) :
         LET item == [n |-> Len(received) + 1, phasecorr |-> ph, last |-> la, part |-> pa]
             grown == IF predicateAccept(item) THEN Append(group, item) ELSE group
         IN  /\ received' = Append(received, item)
             /\ group' = grown
             /\ IF YieldsAfter(item)
                THEN pc' = "yielded" /\ emitted' = Append(emitted, grown)
                ELSE pc' = "iterating" /\ emitted' = emitted
    /\ UNCHANGED <<sendCalls, sent, closes, error, hdr, asmVars, cropVars, normVars>>

\* The connection delivers None: break, then the finally clause.
Sentinel ==
    /\ pc = "iterating"
    /\ pc' = "sentinel"
    /\ closes' = closes + 1
    /\ UNCHANGED <<group, received, emitted, sendCalls, sent, error, hdr,
                   asmVars, cropVars, normVars>>

\* (Variant: the buffered records are yielded as a last group at exhaustion.)
Exhausted_Flush ==
    /\ pc = "iterating"
    /\ pc' = "exhausted"
    /\ closes' = closes + 1
    /\ emitted' = IF group # <<>> THEN Append(emitted, group) ELSE emitted
    /\ UNCHANGED <<group, received, sendCalls, sent, error, hdr,
                   asmVars, cropVars, normVars>>
\* The connection is exhausted: the for loop ends, then the finally clause.
Exhausted ==
    /\ pc = "iterating"
    /\ pc' = "exhausted"
    /\ closes' = closes + 1
    /\ UNCHANGED <<group, received, emitted, sendCalls, sent, error, hdr,
                   asmVars, cropVars, normVars>>

\* (Variant: the loop body catches the failure and goes on to the next group.)
ProcessBody_Resuming ==
    /\ pc = "yielded"
    /\ \E noneOk \in BOOLEAN, sinkOk \in BOOLEAN :
         LET res == process_group(group, hdr, noneOk)
         IN  IF res.err # "none"
             THEN /\ pc' = "iterating"
                  /\ group' = <<>>
                  /\ error' = res.err
                  /\ UNCHANGED <<sendCalls, sent>>
             ELSE /\ sendCalls' = Append(sendCalls, res.images)
                  /\ pc' = "iterating"
                  /\ group' = <<>>
                  /\ IF sinkOk
                     THEN sent' = sent \o res.images /\ error' = error
                     ELSE sent' = sent /\ error' = "SendError"
    /\ UNCHANGED <<received, emitted, closes, hdr, asmVars, cropVars, normVars>>
\* The body of process's for loop on the yielded group, then the generator's
\* resumption (group = []). A raise of process_group or of send_image leaves
\* process with the generator still suspended at its yield.
ProcessBody ==
    /\ pc = "yielded"
    /\ \E noneOk \in BOOLEAN, sinkOk \in BOOLEAN :
         LET res == process_group(group, hdr, noneOk)
         IN  IF res.err # "none"
             THEN /\ pc' = "raised"
                  /\ error' = res.err
                  /\ UNCHANGED <<group, sendCalls, sent>>
             ELSE /\ sendCalls' = Append(sendCalls, res.images)
                  /\ IF sinkOk
                     THEN /\ sent' = sent \o res.images
                          /\ pc' = "iterating"
                          /\ group' = <<>>
                          /\ error' = error
                     ELSE /\ pc' = "raised"
                          /\ error' = "SendError"
                          /\ UNCHANGED <<group, sent>>
    /\ UNCHANGED <<received, emitted, closes, hdr, asmVars, cropVars, normVars>>

\* (Variant: send_close after the loop, not in a finally clause.)
GeneratorClose_NoFinally ==
    /\ pc = "raised"
    /\ pc' = "aborted"
    /\ UNCHANGED <<group, received, emitted, sendCalls, sent, closes, error, hdr,
                   asmVars, cropVars, normVars>>
\* The exception unwinds process's frame, which drops the last reference to the
\* suspended generator: it is closed (GeneratorExit at the yield) and its
\* finally clause runs.
GeneratorClose ==
    /\ pc = "raised"
    /\ pc' = "aborted"
    /\ closes' = closes + 1
    /\ UNCHANGED <<group, received, emitted, sendCalls, sent, error, hdr,
                   asmVars, cropVars, normVars>>

Next == Pull \/ Sentinel \/ Exhausted \/ ProcessBody \/ GeneratorClose

Spec == Init /\ [][Next]_vars

\* The interpreter runs the loop body and the finalisation of the abandoned
\* generator; nothing makes the connection deliver another item.
FairSpec == Spec /\ WF_vars(ProcessBody) /\ WF_vars(GeneratorClose)

\* ---------------------------------------------------- the session's claims
Finishers == {i \in DOMAIN received : predicateFinish(received[i])}
Failed == error # "none"
Ended == pc \in {"sentinel", "exhausted", "aborted"}

\* C1: conditionalGroups emits a group only on a record with the last-in-slice
\* flag: there are never more emitted groups than finish-flagged records
\* received, and every emitted record was followed (or is itself) a
\* finish-flagged record; what is buffered after the last marker stays
\* unemitted however the stream goes on or ends.
C1_NoPartialGroup ==
    /\ Len(emitted) <= Cardinality(Finishers)
    /\ \A k \in DOMAIN emitted : \A j \in DOMAIN emitted[k] :
          \E i \in Finishers : i >= emitted[k][j].n
\* The stream has ended after an emission with accepted records still buffered.
C1_Witness ==
    /\ pc \in {"sentinel", "exhausted"}
    /\ group # <<>>
    /\ Len(emitted) >= 1
    /\ Len(emitted) = Cardinality(Finishers)

\* C2: send_close is called at most once per session; it has been called
\* whenever the loop has ended (exhaustion, None sentinel, generator closed
\* after a failure), and a failure raised by process_group or send_image
\* leads to its call.
C2_StreamReleased ==
    /\ [](closes <= 1)
    /\ [](Ended => closes = 1)
    /\ ((pc = "raised") ~> (closes = 1))
\* A send_image failure ended the loop and the stream was closed.
C2_Witness == pc = "aborted" /\ error = "SendError" /\ closes = 1

\* C3: the finish predicate is evaluated on every record: each finish-flagged
\* record received, phase-correction-flagged or not, has produced exactly one
\* group, the k-th group holding exactly the accepted records received after
\* the (k-1)-th marker up to the k-th, in arrival order; no record is in two
\* groups.
C3_FinishOnEveryRecord ==
    /\ Len(emitted) = Cardinality(Finishers)
    /\ \A i \in Finishers :
          LET k == Cardinality({j \in Finishers : j <= i})
              before == {j \in Finishers : j < i}
              prev == IF before = {} THEN 0
                      ELSE CHOOSE j \in before : \A l \in before : l <= j
          IN  emitted[k] = SelectSeq(SubSeq(received, prev + 1, i), predicateAccept)
    /\ \A k1, k2 \in DOMAIN emitted : \A j1 \in DOMAIN emitted[k1], j2 \in DOMAIN emitted[k2] :
          emitted[k1][j1].n = emitted[k2][j2].n => (k1 = k2 /\ j1 = j2)
\* A phase-correction record carrying the finish flag closed a non-empty group,
\* and a second group followed.
C3_Witness ==
    /\ Len(emitted) >= 2
    /\ emitted[1] # <<>>
    /\ \E i \in Finishers : received[i].phasecorr /\ Cardinality({j \in Finishers : j <= i}) = 1

\* C4 as stated: after a group's processing failed, process is still in its
\* loop, pulling records and emitting later groups.
C4_ResumesAfterFailure == Failed => pc \notin {"raised", "aborted"}
\* C4 amended: a failure while processing a group ends the session: none of
\* that group's images is sent, and afterwards no record is pulled, no group is
\* emitted and nothing more is sent.
C4_FailureEndsSession ==
    [][/\ (error' # error => sent' = sent)
       /\ (Failed => /\ received' = received
                     /\ emitted' = emitted
                     /\ sendCalls' = sendCalls
                     /\ sent' = sent
                     /\ pc' \in {"raised", "aborted"})]_vars
\* process_group failed on a group while the connection could deliver more.
C4_Witness ==
    /\ pc = "aborted"
    /\ error \in {"ValueError", "IndexError", "AttributeError"}
    /\ Len(received) < MaxLen

\* C10 as stated: nothing is handed to the output sink for an empty group:
\* send_image is called for non-empty groups only.
C10_NothingHandedToSink ==
    Len(sendCalls) <= Cardinality({k \in DOMAIN emitted : emitted[k] # <<>>})
\* C10 amended: for an empty group process_group raises nothing and returns
\* no image; send_image is still called once, with the empty list, so no image
\* reaches the sink; unless that call fails, processing continues with the
\* next group.
C10_EmptyGroupIsNoOp ==
    [][(pc = "yielded" /\ group = <<>> /\ pc' # pc) =>
          /\ sendCalls' = Append(sendCalls, <<>>)
          /\ sent' = sent
          /\ \/ pc' = "iterating" /\ error' = error /\ group' = <<>>
             \/ pc' = "raised" /\ error' = "SendError"]_vars
\* An empty group was emitted and handled, and the loop is pulling again.
C10_Witness ==
    /\ pc = "iterating"
    /\ emitted # <<>>
    /\ emitted[Len(emitted)] = <<>>
    /\ sendCalls # <<>>
    /\ sendCalls[Len(sendCalls)] = <<>>
    /\ ~Failed

\* ------------------------------------------------- process_group on a group
\* The groups conditionalGroups can yield: accepted records in arrival order,
\* the finish flag on the last one.
AsmGroupsOfLen(k) ==
    {[i \in 1..k |-> [n |-> i, phasecorr |-> FALSE, last |-> (i = k), part |-> f[i]]] :
        f \in [1..k -> 0..MaxPart]}
AsmGroups == UNION {AsmGroupsOfLen(k) : k \in 0..MaxGroup}
AsmGeometries == [yEnc : 1..2, zEnc : 1..(MaxPart + 1), zRecon : 0..(MaxPart + 2)]

AsmInit ==
    /\ asmPc = "ready"
    /\ asmGroup \in AsmGroups
    /\ asmHdr \in AsmGeometries
    /\ asmResult = [err |-> "none", images |-> <<>>]
    /\ sessionIdle /\ cropIdle /\ normIdle

\* image = process_group(group, config, mrdHeader)
Assemble ==
    /\ asmPc = "ready"
    /\ \E noneOk \in BOOLEAN : asmResult' = process_group(asmGroup, asmHdr, noneOk)
    /\ asmPc' = "done"
    /\ UNCHANGED <<asmGroup, asmHdr, sessionVars, cropVars, normVars>>

AsmNext == Assemble
AsmSpec == AsmInit /\ [][AsmNext]_vars

AsmParts == {asmGroup[i].part : i \in DOMAIN asmGroup}
\* max(partition) + 1
AsmN == (CHOOSE p \in AsmParts : \A q \in AsmParts : q <= p) + 1
AsmDense == asmGroup # <<>> /\ AsmParts = 0..(AsmN - 1)
AsmGap == asmGroup # <<>> /\ AsmParts # 0..(AsmN - 1)
AsmHeadsMatch ==
    \A p \in DOMAIN asmResult.images :
        /\ asmResult.images[p].slice = p - 1
        /\ \E i \in DOMAIN asmGroup :
              asmGroup[i].part = p - 1 /\ getHead(asmGroup[i]) = asmResult.images[p].head

\* C5 as stated: a complete group with the dense partitions 0..N-1 (N the
\* encoded z size) yields exactly N images, image p with slice p and the header
\* of a record of partition p, whatever the reconstructed z size.
C5_DenseGroupYieldsN ==
    (/\ asmPc = "done"
     /\ AsmDense
     /\ asmHdr.zEnc = AsmN
     /\ Len(asmGroup) = asmHdr.yEnc * asmHdr.zEnc)
    => /\ asmResult.err = "none"
       /\ Len(asmResult.images) = AsmN
       /\ AsmHeadsMatch
\* C5 amended: for a non-empty group with the dense partitions 0..N-1,
\* process_group, when it returns, returns one image per partition of the
\* cropped volume, never more than N: zEnc of them when the reconstructed z
\* size is 0 or zEnc, only zRecon of them when 0 < zRecon < zEnc; image p has
\* slice p and is given the header of a record of partition p, in ascending
\* order. A complete group with zEnc = N and no z crop does return N images.
C5_ImagesPerCroppedPartition ==
    (asmPc = "done" /\ AsmDense) =>
       /\ asmResult.err = "none" =>
            /\ Len(asmResult.images) <= AsmN
            /\ asmHdr.zRecon \in {0, asmHdr.zEnc} => Len(asmResult.images) = asmHdr.zEnc
            /\ (0 < asmHdr.zRecon /\ asmHdr.zRecon < asmHdr.zEnc) =>
                  Len(asmResult.images) = asmHdr.zRecon
            /\ AsmHeadsMatch
       /\ (/\ asmHdr.zEnc = AsmN
           /\ Len(asmGroup) = asmHdr.yEnc * asmHdr.zEnc
           /\ asmHdr.zRecon \in {0, AsmN})
          => asmResult.err = "none" /\ Len(asmResult.images) = AsmN
\* A complete dense group of three partitions was cropped to two images.
C5_Witness ==
    /\ asmPc = "done"
    /\ AsmDense
    /\ AsmN = 3
    /\ asmHdr.zEnc = 3
    /\ asmHdr.zRecon = 2
    /\ asmResult.err = "none"
    /\ Len(asmResult.images) = 2

\* C6: a group with a partition index in 0..maxPartition that no record
\* carries makes process_group fail: it returns no images, and no image is
\* ever given the None placeholder as its raw header.
C6_GapIsSurfaced ==
    (asmPc = "done" /\ AsmGap) =>
       /\ asmResult.err # "none"
       /\ \A p \in DOMAIN asmResult.images : asmResult.images[p].head # NoneHead

\* ------------------------------------------------------ the cropping steps
CropInit ==
    /\ cropPc = "x"
    /\ \E nx \in 1..MaxAxis, ny \in 1..MaxAxis, nz \in 1..MaxAxis :
          cropIn = <<Axis(nx), Axis(ny), Axis(nz)>>
    /\ cropData = cropIn
    /\ cropTarget \in [1..3 -> 0..MaxTarget]
    /\ sessionIdle /\ asmIdle /\ normIdle

\* Remove readout oversampling (reconSpace.matrixSize.x on axis 0).
CropX ==
    /\ cropPc = "x"
    /\ cropData' = [cropData EXCEPT ![1] = CropAxis(cropData[1], cropTarget[1])]
    /\ cropPc' = "y"
    /\ UNCHANGED <<cropIn, cropTarget, sessionVars, asmVars, normVars>>
\* Remove phase oversampling (reconSpace.matrixSize.y on axis 1).
CropY ==
    /\ cropPc = "y"
    /\ cropData' = [cropData EXCEPT ![2] = CropAxis(cropData[2], cropTarget[2])]
    /\ cropPc' = "z"
    /\ UNCHANGED <<cropIn, cropTarget, sessionVars, asmVars, normVars>>
\* Remove phase oversampling 2 (reconSpace.matrixSize.z on axis 2).
CropZ ==
    /\ cropPc = "z"
    /\ cropData' = [cropData EXCEPT ![3] = CropAxis(cropData[3], cropTarget[3])]
    /\ cropPc' = "done"
    /\ UNCHANGED <<cropIn, cropTarget, sessionVars, asmVars, normVars>>

CropNext == CropX \/ CropY \/ CropZ
CropSpec == CropInit /\ [][CropNext]_vars

\* The axes the steps taken so far have passed.
CropPassed ==
    CASE cropPc = "x" -> {}
      [] cropPc = "y" -> {1}
      [] cropPc = "z" -> {1, 2}
      [] cropPc = "done" -> {1, 2, 3}
      [] OTHER -> {}

\* C7: on each axis, the cropper changes the axis only when the target is
\* nonzero and strictly less than the current size, and then leaves the
\* centred slice [offset : offset+target], offset = floor((current-target)/2),
\* of length target; with a target of zero, equal to or greater than the
\* current size the axis is as in the input.
C7_CentredCropOrNoOp ==
    \A a \in 1..3 :
        IF a \in CropPassed
        THEN LET cur == Len(cropIn[a])
                 t == cropTarget[a]
                 offset == (cur - t) \div 2
             IN  IF t # 0 /\ t < cur
                 THEN /\ cropData[a] = SubSeq(cropIn[a], offset + 1, offset + t)
                      /\ Len(cropData[a]) = t
                 ELSE cropData[a] = cropIn[a]
        ELSE cropData[a] = cropIn[a]

\* --------------------------------------------------- the normalisation step
\* mrdhelper.get_userParameterLong_value(mrdHeader, "BitsStored"): None or a long.
BitsParams ==
    {[present |-> FALSE, value |-> 0]} \union {[present |-> TRUE, value |-> b] : b \in {12, 16}}

\* What the out-of-range (and NaN) float to int16 conversion of astype gives:
\* C leaves it undefined; builds truncate to the low 16 bits, saturate, or
\* give the "integer indefinite" value.
CastModes == {"wrap", "saturate", "indefinite"}

\* np.around of the exact quotient a / b (a >= 0, b > 0): half to even.
RoundHalfEven(a, b) ==
    LET q == a \div b
        r == a % b
    IN  IF 2 * r < b THEN q
        ELSE IF 2 * r > b THEN q + 1
        ELSE IF q % 2 = 0 THEN q ELSE q + 1

\* astype(np.int16) of a rounded value.
CastInt16(v, mode) ==
    IF Int16Min <= v /\ v <= Int16Max THEN v
    ELSE CASE mode = "wrap" -> ((v - Int16Min) % (2 * (Int16Max + 1))) + Int16Min
           [] mode = "saturate" -> IF v < Int16Min THEN Int16Min ELSE Int16Max
           [] OTHER -> Int16Min
\* astype(np.int16) of NaN.
CastNaN(mode) == IF mode = "indefinite" THEN Int16Min ELSE 0

\* "Determine max value" and "Normalize and convert to int16". The volume is
\* the sequence of its voxels' magnitudes. maxVal / data.max() is a float
\* division: by 0.0 it gives inf (a warning, no exception), and 0 * inf is NaN.
Normalize(data, bits, mode) ==
    LET BitsStored == IF bits.present THEN bits.value ELSE DefaultBitsStored
        maxVal == Pow2(BitsStored) - 1
        mx == SeqMax(data)
    IN  [maxVal |-> maxVal,
         dividedByZero |-> (mx = 0),
         pixels |-> [i \in DOMAIN data |->
                       IF mx = 0 THEN CastNaN(mode)
                       ELSE CastInt16(RoundHalfEven(data[i] * maxVal, mx), mode)]]

NormInit ==
    /\ normPc = "ready"
    /\ normData \in SeqsOf(0..MaxMag, 1, MaxVox)
    /\ normBits \in BitsParams
    /\ normCast \in CastModes
    /\ normOut = [maxVal |-> 0, dividedByZero |-> FALSE, pixels |-> <<>>]
    /\ sessionIdle /\ asmIdle /\ cropIdle

NormStep ==
    /\ normPc = "ready"
    /\ normOut' = Normalize(normData, normBits, normCast)
    /\ normPc' = "done"
    /\ UNCHANGED <<normData, normBits, normCast, sessionVars, asmVars, cropVars>>

NormNext == NormStep
NormSpec == NormInit /\ [][NormNext]_vars

\* C8: after normalisation of a volume with a positive maximum, for the
\* default bit depth and for an override such as 16, the largest int16 pixel
\* equals maxVal = 2^BitsStored - 1 and every pixel lies in 0..maxVal.
C8_MaxIsMaxVal ==
    (normPc = "done" /\ SeqMax(normData) > 0) =>
       /\ normOut.maxVal = Pow2(IF normBits.present THEN normBits.value ELSE DefaultBitsStored) - 1
       /\ SeqMax(normOut.pixels) = normOut.maxVal
       /\ \A i \in DOMAIN normOut.pixels :
             0 <= normOut.pixels[i] /\ normOut.pixels[i] <= normOut.maxVal

\* C9: a volume whose maximum is zero is detected before scaling: the division
\* maxVal / 0 is never performed and no pixels derived from it are returned.
C9_ZeroMaxDetected ==
    (normPc = "done" /\ SeqMax(normData) = 0) => ~normOut.dividedByZero

====
